---- MODULE Spec2Model ----
(***************************************************************************)
(* The scan pipeline of the card scanner: the useCardScanner hook          *)
(* (src/src/hooks/useCardScanner.ts), the authenticity scorer it calls     *)
(* (src/src/services/ocrService.ts) and the App component that owns the    *)
(* hook instance and supplies onSuccess / onError (src/unnamed/part_004).  *)
(*                                                                         *)
(* One action is one synchronous run of JavaScript between two awaits of   *)
(* scanCard: the state setters called in that run are applied together.    *)
(* progress is kept in hundredths (0.25 is 25); a confidence is the pair   *)
(* <<numerator, denominator>>.                                             *)
(***************************************************************************)
EXTENDS Integers, Sequences, FiniteSets, TLC

\* ------------------------------------------------------------------ bounds
MaxScans == 3
MaxInFlight == 2

Slots == 1..MaxInFlight

\* ------------------------------------------------------- JavaScript values
NULL == "<null>"
UNDEFINED == "<undefined>"
None == [none |-> TRUE]

Truthy(s) == s # "" /\ s # NULL /\ s # UNDEFINED

\* a || b on strings
OrElse(a, b) == IF Truthy(a) THEN a ELSE b

\* ---------------------------------------------------------------- messages
MISSING_IMAGE == "Image data is missing. Please try again."
OCR_FAILED == "Could not read card information. Please ensure good lighting and focus."
API_ERROR == "Service temporarily unavailable. Please try again later."

SCAN_STEPS ==
  << "Extracting text from image...",
     "Validating card information...",
     "Checking authenticity...",
     "Fetching market prices..." >>

\* ------------------------------------------------------------------ inputs
ImageDatas ==
  { [base64 |-> b, uri |-> "file://photo.jpg"] :
      b \in {NULL, UNDEFINED, "", "/9j/4AAQ"} }

CardInfos ==
  [ name : {"", "Pikachu"},
    setNumber : {"", "25/102"},
    hp : {"", "60"},
    rarity : {""},
    setName : {UNDEFINED, "Jungle"} ]

\* what a rejected promise carries: an Error with a message, or another value
Thrown ==
  { [isError |-> TRUE, message |-> "Network Error"],
    [isError |-> FALSE, message |-> UNDEFINED] }

\* extractTextFromImage : Promise<CardInfo | null>, may reject
OcrOutcomes ==
  { [kind |-> "null"] }
    \cup { [kind |-> "throw", err |-> e] : e \in Thrown }
    \cup { [kind |-> "card", card |-> c] : c \in CardInfos }

\* validateCardWithPokemonAPI : Promise<PokemonCard | null>, never rejects
ValidatedCards ==
  { [name |-> "Pikachu V", set |-> [name |-> "Base Set"], rarity |-> "Rare Holo"] }

ValidateOutcomes == {None} \cup ValidatedCards

\* CardPrices, prices in cents; an optional number is <<>> or <<n>>
CardPricesSet ==
  { [cardName |-> "Pikachu", setNumber |-> "25/102", averagePrice |-> <<1250>>,
     sources |-> << [source |-> "TCGPlayer", prices |-> [market |-> 1000]] >>],
    [cardName |-> "Pikachu", setNumber |-> "25/102", averagePrice |-> <<>>,
     sources |-> << [source |-> "Card Kingdom", prices |-> [nm |-> 1400]] >>] }

\* getCardPrices : Promise<CardPrices | null>, may reject
PriceOutcomes ==
  { [kind |-> "null"] }
    \cup { [kind |-> "throw", err |-> e] : e \in Thrown }
    \cup { [kind |-> "prices", prices |-> p] : p \in CardPricesSet }

\* ------------------------------------------------------ authenticity scorer
AuthenticityChecks(cardInfo) ==
  [ hasName |-> Truthy(cardInfo.name),
    hasSetNumber |-> Truthy(cardInfo.setNumber),
    hasHP |-> Truthy(cardInfo.hp),
    fontConsistency |-> TRUE,
    printQuality |-> TRUE,
    holoPattern |-> TRUE ]

\* the database check of the scorer: a stub that accepts every card
checkPokemonDatabase(cardInfo) == TRUE

\* a count that leaves out the three checks that are fixed true
passedChecksComputedOnly(checks) ==
  Cardinality({k \in {"hasName", "hasSetNumber", "hasHP"} : checks[k]})

passedChecks(checks) == Cardinality({k \in DOMAIN checks : checks[k]})

totalChecks(checks) == Cardinality(DOMAIN checks)

\* a threshold of 0.9
AboveThresholdStrict(passed, total) == passed * 10 > 9 * total

\* confidence > 0.7, for confidence = passed / total
AboveThreshold(passed, total) == passed * 10 > 7 * total

\* a scorer that consults the database before the basic validation
ScoreDatabaseFirst(cardInfo, isValidCard) ==
  LET checks == AuthenticityChecks(cardInfo) IN
  IF ~isValidCard
  THEN [ isAuthentic |-> FALSE, confidence |-> <<4, 10>>,
         issues |-> << "Card not found in official database" >>,
         checks |-> checks ]
  ELSE IF ~checks.hasName \/ ~checks.hasSetNumber
  THEN [ isAuthentic |-> FALSE, confidence |-> <<3, 10>>,
         issues |-> << "Missing essential card information" >>,
         checks |-> checks ]
  ELSE [ isAuthentic |-> AboveThreshold(passedChecks(checks), totalChecks(checks)),
         confidence |-> << passedChecks(checks), totalChecks(checks) >>,
         issues |-> << >>,
         checks |-> checks ]

\* the body of verifyCardAuthenticity, isValidCard being what the awaited
\* checkPokemonDatabase answered
Score(cardInfo, isValidCard) ==
  LET checks == AuthenticityChecks(cardInfo) IN
  IF ~checks.hasName \/ ~checks.hasSetNumber
  THEN [ isAuthentic |-> FALSE, confidence |-> <<3, 10>>,
         issues |-> << "Missing essential card information" >>,
         checks |-> checks ]
  ELSE IF ~isValidCard
  THEN [ isAuthentic |-> FALSE, confidence |-> <<4, 10>>,
         issues |-> << "Card not found in official database" >>,
         checks |-> checks ]
  ELSE [ isAuthentic |-> AboveThreshold(passedChecks(checks), totalChecks(checks)),
         confidence |-> << passedChecks(checks), totalChecks(checks) >>,
         issues |-> << >>,
         checks |-> checks ]

verifyCardAuthenticity(cardInfo) == Score(cardInfo, checkPokemonDatabase(cardInfo))

\* ------------------------------------------------- pieces of scanCard
\* a guard that tests only for null and undefined
HasImageDataNotNull(imageData) == imageData.base64 \notin {NULL, UNDEFINED}

\* the guard  if (!imageData.base64)
HasImageData(imageData) == Truthy(imageData.base64)

\* a guard that tests only  !cardInfo
OcrUsableNotNull(out) == out.kind = "card"

\* the guard  if (!cardInfo || !cardInfo.name)  negated
OcrUsable(out) == out.kind = "card" /\ Truthy(out.card.name)

\* a catch that reads err.message of whatever was thrown
ErrorMessageUnchecked(err) == err.message

\* err instanceof Error ? err.message : ERROR_MESSAGES.API_ERROR
ErrorMessageOf(err) == IF err.isError THEN err.message ELSE API_ERROR

\* stage 3 reporting the progress of stage 4
StageProgressRepeated(step) ==
  CASE step = 0 -> 25
    [] step = 1 -> 50
    [] step = 2 -> 90
    [] step = 3 -> 90

\* progress reported when a stage is entered
StageProgress(step) ==
  CASE step = 0 -> 25
    [] step = 1 -> 50
    [] step = 2 -> 75
    [] step = 3 -> 90

\* prices fetched whatever the verdict
ShouldFetchPricesAlways(authenticityResult) == TRUE

\* if (authenticityResult.isAuthentic)
ShouldFetchPrices(authenticityResult) == authenticityResult.isAuthentic

\* validatedCard?.name and validatedCard?.set.name
ValidatedName(validatedCard) ==
  IF validatedCard = None THEN UNDEFINED ELSE validatedCard.name

ValidatedSetName(validatedCard) ==
  IF validatedCard = None THEN UNDEFINED ELSE validatedCard.set.name

\* the validated name taken without the fallback to the OCR name
EnrichedCardInfoNoFallback(cardInfo, validatedCard) ==
  [ cardInfo EXCEPT
      !.name = ValidatedName(validatedCard),
      !.setName = ValidatedSetName(validatedCard) ]

EnrichedCardInfo(cardInfo, validatedCard) ==
  [ cardInfo EXCEPT
      !.name = OrElse(ValidatedName(validatedCard), cardInfo.name),
      !.setName = ValidatedSetName(validatedCard) ]

\* getCardPrices awaited without the inner try/catch
PriceStageUncaught(out) ==
  [ priceData |-> IF out.kind = "prices" THEN out.prices ELSE None,
    rethrown |-> out.kind = "throw" ]

\* the inner try/catch around getCardPrices: what priceData becomes, and
\* whether the exception leaves the inner try
PriceStage(out) ==
  [ priceData |-> IF out.kind = "prices" THEN out.prices ELSE None,
    rethrown |-> FALSE ]

\* ------------------------------------------------------- price normalizer
\* A price is a whole number of cents in the sources; a number | null is
\* << >> or << n >>.  A computed price is a fraction of cents in lowest
\* terms, so a mean is exact.
RECURSIVE GCD(_, _)
GCD(a, b) == IF b = 0 THEN a ELSE GCD(b, a % b)

Abs(n) == IF n < 0 THEN 0 - n ELSE n

Ratio(n, d) ==
  LET g == GCD(Abs(n), d) IN [num |-> n \div g, den |-> d \div g]

\* the value of a key of a prices map, undefined when the key is not in it
Field(prices, key) == IF key \in DOMAIN prices THEN << prices[key] >> ELSE << >>

\* a || b on number | undefined
OrNumber(a, b) == IF a # << >> /\ a[1] # 0 THEN a ELSE b

extractMarketPrice(source) ==
  IF source = None \/ source.prices = None THEN << >>
  ELSE IF source.source = "TCGPlayer" /\ "market" \in DOMAIN source.prices
  THEN << source.prices.market >>
  ELSE IF source.source = "Card Kingdom" /\ "nm" \in DOMAIN source.prices
  THEN << source.prices.nm >>
  ELSE OrNumber(Field(source.prices, "market"),
         OrNumber(Field(source.prices, "mid"),
           OrNumber(Field(source.prices, "average"),
             OrNumber(Field(source.prices, "nm"), << >>))))

\* a filter that keeps every extracted number
UsableAnyNumber(price) == price # << >>

\* price && price > 0
Usable(price) == price # << >> /\ price[1] > 0

\* the prices array built by the loop over sources
RECURSIVE UsablePrices(_)
UsablePrices(sources) ==
  IF sources = << >> THEN << >>
  ELSE LET price == extractMarketPrice(Head(sources)) IN
       (IF Usable(price) THEN << price[1] >> ELSE << >>)
         \o UsablePrices(Tail(sources))

\* prices.reduce((sum, price) => sum + price, 0)
RECURSIVE Sum(_)
Sum(prices) == IF prices = << >> THEN 0 ELSE Head(prices) + Sum(Tail(prices))

\* sources is always an array here, as CardPrices declares it
getBestAvailablePrice(priceData) ==
  IF priceData = None THEN << >>
  ELSE IF Len(priceData.sources) = 0 THEN << >>
  ELSE IF priceData.averagePrice # << >> /\ priceData.averagePrice[1] > 0
  THEN << Ratio(priceData.averagePrice[1], 1) >>
  ELSE LET prices == UsablePrices(priceData.sources) IN
       IF Len(prices) = 0 THEN << >>
       ELSE << Ratio(Sum(prices), Len(prices)) >>

\* a rounding that drops the digits after the second decimal
FloorCents(n, d) == n \div d

\* Number(x.toFixed(2)) for x = n/d cents, x >= 0: the nearest whole cent
RoundCents(n, d) == (2 * n + d) \div (2 * d)

calculatePriceRange(marketPrice) ==
  IF marketPrice = << >> \/ marketPrice[1].num <= 0
  THEN [ low |-> << >>, high |-> << >> ]
  ELSE [ low |-> << RoundCents(8 * marketPrice[1].num, 10 * marketPrice[1].den) >>,
         high |-> << RoundCents(12 * marketPrice[1].num, 10 * marketPrice[1].den) >> ]

\* tcgPlayerSource?.prices?.market || null
getTCGPlayerPrice(priceData) ==
  IF priceData = None THEN << >>
  ELSE LET idx == { k \in 1..Len(priceData.sources) :
                      priceData.sources[k].source = "TCGPlayer" } IN
       IF idx = {} THEN << >>
       ELSE LET src == priceData.sources[CHOOSE k \in idx : \A j \in idx : k <= j] IN
            IF "market" \in DOMAIN src.prices /\ src.prices.market # 0
            THEN << src.prices.market >> ELSE << >>

MakeScanResult(cardInfo, validatedCard, authenticityResult, priceData) ==
  [ cardInfo |-> cardInfo,
    validatedCard |-> validatedCard,
    authenticity |-> authenticityResult,
    prices |-> priceData ]

\* a whole number of cents, or none, as a computed price
Whole(cents) == IF cents = << >> THEN << >> ELSE << Ratio(cents[1], 1) >>

\* tcgPlayerPrice ? tcgPlayerPrice * tenths / 10 : undefined
Scaled(tcgPlayerPrice, tenths) ==
  IF tcgPlayerPrice = << >> THEN << >>
  ELSE << Ratio(tenths * tcgPlayerPrice[1], 10) >>

MakeCardData(cardInfo, validatedCard, authenticityResult, priceData) ==
  [ name |-> OrElse(ValidatedName(validatedCard), cardInfo.name),
    set |-> OrElse(ValidatedSetName(validatedCard), "Unknown Set"),
    rarity |-> OrElse(IF validatedCard = None THEN UNDEFINED ELSE validatedCard.rarity,
                      cardInfo.rarity),
    isAuthentic |-> authenticityResult.isAuthentic,
    tcgPlayerPrice |-> getTCGPlayerPrice(priceData),
    price |-> LET marketPrice == getBestAvailablePrice(priceData)
                  priceRange == calculatePriceRange(marketPrice) IN
              [ market |-> marketPrice,
                low |-> Whole(priceRange.low),
                high |-> Whole(priceRange.high),
                average |-> marketPrice ] ]

\* a cleanup that clears isScanning only
FinallyKeepsProgress(progressBefore, stepBefore) ==
  [ isScanning |-> FALSE, progress |-> progressBefore, currentStep |-> stepBefore ]

\* the state the finally block leaves, given the values before it
Finally(progressBefore, stepBefore) ==
  [ isScanning |-> FALSE, progress |-> 0, currentStep |-> 0 ]

\* a start that keeps the earlier result
ScanResultKept(before) == before

\* setScanResult(null) at the start of a scan
ScanResultAtStart(before) == None

\* ------------------------------------------------- App callbacks
\* onSuccess of App: the card shown on the result screen
EnhancedCardData(cardData) ==
  [ cardData EXCEPT
      !.rarity = OrElse(cardData.rarity, "Common"),
      !.price = [ market |-> Whole(cardData.tcgPlayerPrice),
                  low |-> Scaled(cardData.tcgPlayerPrice, 8),
                  high |-> Scaled(cardData.tcgPlayerPrice, 12),
                  average |-> Whole(cardData.tcgPlayerPrice) ] ]

\* ------------------------------------------------------------------- state
VARIABLES
  scanResult,    \* hook state: ScanResult or None
  isScanning,    \* hook state
  progress,      \* hook state, in hundredths
  currentStep,   \* hook state: index into SCAN_STEPS
  error,         \* hook state: message or NULL
  appState,      \* App state: "camera", "loading" or "result"
  scannedCard,   \* App state: CardData or None
  scan,          \* the scanCard invocations: position, locals, what each did
  started,       \* number of scanCard calls made so far
  calc           \* a helper function applied on its own: name, input, result

vars ==
  << scanResult, isScanning, progress, currentStep, error,
     appState, scannedCard, scan, started, calc >>

hook == << scanResult, isScanning, progress, currentStep, error >>

\* what an invocation did, in order
Report(step, prog) == [kind |-> "report", name |-> "", step |-> step, progress |-> prog]

Call(name) == [kind |-> "call", name |-> name, step |-> 0, progress |-> 0]

SetError(msg) == [kind |-> "setError", name |-> msg, step |-> 0, progress |-> 0]

OnError(msg) == [kind |-> "onError", name |-> msg, step |-> 0, progress |-> 0]

OnSuccess == [kind |-> "onSuccess", name |-> "", step |-> 0, progress |-> 0]

\* setProgress / setCurrentStep of the finally block
Reset(step, prog) == [kind |-> "reset", name |-> "", step |-> step, progress |-> prog]

Store == [kind |-> "setScanResult", name |-> "", step |-> 0, progress |-> 0]

SetScanning(b) ==
  [kind |-> "setIsScanning", name |-> IF b THEN "true" ELSE "false", step |-> 0, progress |-> 0]

IdleScan ==
  [ pc |-> "idle", imageData |-> None, ocr |-> None, cardInfo |-> None,
    validatedCard |-> None, authenticityResult |-> None,
    enrichedCardInfo |-> None, priceOutcome |-> None, priceData |-> None,
    trace |-> << >> ]

InFlight(i) ==
  scan[i].pc \in {"awaitOCR", "awaitValidate", "awaitAuth", "awaitPrice"}

Free(i) == scan[i].pc \in {"idle", "returned"}

\* the slot a new invocation takes: the lowest free one
IsNextSlot(i) == Free(i) /\ \A j \in Slots : Free(j) => i <= j

\* no helper function is being applied
NoCalc == [fn |-> "", input |-> None, done |-> FALSE, output |-> None]

\* the hook and the App as constructed
Constructed ==
  /\ scanResult = None
  /\ isScanning = FALSE
  /\ progress = 0
  /\ currentStep = 0
  /\ error = NULL
  /\ appState = "camera"
  /\ scannedCard = None
  /\ scan = [i \in Slots |-> IdleScan]
  /\ started = 0

Init == Constructed /\ calc = NoCalc

\* ------------------------------------------------------------ scanCard
\* catch and finally of scanCard, App.onError included: the scan i fails
\* with message msg
Fail(i, sc, msg) ==
  LET fin == Finally(progress, currentStep) IN
  /\ error' = msg
  /\ appState' = "camera"
  /\ isScanning' = fin.isScanning
  /\ progress' = fin.progress
  /\ currentStep' = fin.currentStep
  /\ scan' = [scan EXCEPT ![i] =
                [sc EXCEPT !.pc = "returned",
                           !.trace = sc.trace \o << SetError(msg), OnError(msg),
                             SetScanning(fin.isScanning),
                             Reset(fin.currentStep, fin.progress) >>]]
  /\ UNCHANGED << scanResult, scannedCard, started, calc >>

\* "Complete" to the end of scanCard, App.onSuccess included
Complete(i, sc, priceData) ==
  LET result == MakeScanResult(sc.cardInfo, sc.validatedCard,
                               sc.authenticityResult, priceData)
      cardData == MakeCardData(sc.cardInfo, sc.validatedCard,
                               sc.authenticityResult, priceData)
      fin == Finally(100, 3)
  IN
  /\ scanResult' = result
  /\ scannedCard' = EnhancedCardData(cardData)
  /\ appState' = "result"
  /\ isScanning' = fin.isScanning
  /\ progress' = fin.progress
  /\ currentStep' = fin.currentStep
  /\ scan' = [scan EXCEPT ![i] =
                [sc EXCEPT !.pc = "returned",
                           !.priceData = priceData,
                           !.trace = sc.trace \o << Report(3, 100), Store, OnSuccess,
                             SetScanning(fin.isScanning),
                             Reset(fin.currentStep, fin.progress) >>]]
  /\ UNCHANGED << error, started, calc >>

\* scanCard(imageData) up to its first await; appStateAtCall is the App
\* state when the call is made
ScanCard(i, imageData, appStateAtCall) ==
  /\ started < MaxScans
  /\ IsNextSlot(i)
  /\ started' = started + 1
  /\ UNCHANGED calc
  /\ IF ~HasImageData(imageData)
     THEN /\ error' = MISSING_IMAGE
          /\ appState' = "camera"
          /\ scan' = [scan EXCEPT ![i] =
                        [IdleScan EXCEPT !.pc = "returned",
                                         !.imageData = imageData,
                                         !.trace = << SetError(MISSING_IMAGE),
                                                      OnError(MISSING_IMAGE) >>]]
          /\ UNCHANGED << scanResult, isScanning, progress, currentStep, scannedCard >>
     ELSE /\ isScanning' = TRUE
          /\ error' = NULL
          /\ scanResult' = ScanResultAtStart(scanResult)
          /\ currentStep' = 0
          /\ progress' = StageProgress(0)
          /\ appState' = appStateAtCall
          /\ scan' = [scan EXCEPT ![i] =
                        [IdleScan EXCEPT !.pc = "awaitOCR",
                                         !.imageData = imageData,
                                         !.trace = << SetScanning(TRUE), Report(0, 0),
                                                      Report(0, StageProgress(0)),
                                                      Call("extractTextFromImage") >>]]
          /\ UNCHANGED scannedCard

\* extractTextFromImage settles: step 1 ends, step 2 begins
ExtractReturns(i, out) ==
  /\ scan[i].pc = "awaitOCR"
  /\ LET sc == [scan[i] EXCEPT !.ocr = out] IN
     IF out.kind = "throw"
     THEN Fail(i, sc, ErrorMessageOf(out.err))
     ELSE IF ~OcrUsable(out)
     THEN Fail(i, sc, OCR_FAILED)
     ELSE /\ currentStep' = 1
          /\ progress' = StageProgress(1)
          /\ scan' = [scan EXCEPT ![i] =
                        [sc EXCEPT !.pc = "awaitValidate",
                                   !.cardInfo = out.card,
                                   !.trace = sc.trace \o
                                     << Report(1, StageProgress(1)),
                                        Call("validateCardWithPokemonAPI") >>]]
          /\ UNCHANGED << scanResult, isScanning, error, appState, scannedCard, started, calc >>

\* validateCardWithPokemonAPI settles: step 3 begins
ValidateReturns(i, validatedCard) ==
  /\ scan[i].pc = "awaitValidate"
  /\ currentStep' = 2
  /\ progress' = StageProgress(2)
  /\ scan' = [scan EXCEPT ![i] =
                [@ EXCEPT !.pc = "awaitAuth",
                          !.validatedCard = validatedCard,
                          !.trace = @ \o << Report(2, StageProgress(2)),
                                            Call("verifyCardAuthenticity") >>]]
  /\ UNCHANGED << scanResult, isScanning, error, appState, scannedCard, started, calc >>

\* verifyCardAuthenticity settles: step 4 begins, or the scan completes
\* when the card is not authentic
AuthenticityReturns(i) ==
  /\ scan[i].pc = "awaitAuth"
  /\ LET authenticityResult == verifyCardAuthenticity(scan[i].cardInfo)
         sc == [scan[i] EXCEPT !.authenticityResult = authenticityResult,
                               !.trace = @ \o << Report(3, StageProgress(3)) >>]
     IN
     IF ShouldFetchPrices(authenticityResult)
        THEN LET enriched == EnrichedCardInfo(sc.cardInfo, sc.validatedCard) IN
             /\ currentStep' = 3
             /\ progress' = StageProgress(3)
             /\ scan' = [scan EXCEPT ![i] =
                           [sc EXCEPT !.pc = "awaitPrice",
                                      !.enrichedCardInfo = enriched,
                                      !.trace = sc.trace \o << Call("getCardPrices") >>]]
             /\ UNCHANGED << scanResult, isScanning, error, appState, scannedCard, started, calc >>
        ELSE Complete(i, sc, None)

\* getCardPrices settles: the scan completes
PricesReturn(i, out) ==
  /\ scan[i].pc = "awaitPrice"
  /\ LET sc == [scan[i] EXCEPT !.priceOutcome = out]
         stage == PriceStage(out)
     IN
     IF stage.rethrown
     THEN Fail(i, sc, ErrorMessageOf(out.err))
     ELSE Complete(i, sc, stage.priceData)

\* ------------------------------------------------------------------- App
\* handleImageCapture: the camera screen hands a picture to the App, which
\* shows the loading screen and calls scanCard
HandleImageCapture(imageData) ==
  /\ appState = "camera"
  /\ \E i \in Slots : ScanCard(i, imageData, "loading")

\* handleScanAgain, the button of the result screen
HandleScanAgain ==
  /\ appState = "result"
  /\ appState' = "camera"
  /\ scannedCard' = None
  /\ UNCHANGED << hook, scan, started, calc >>

\* scanCard called on the hook instance by a caller that does not wait for
\* the loading screen
DirectScanCard(imageData) ==
  \E i \in Slots : ScanCard(i, imageData, appState)

Settle ==
  \E i \in Slots :
    \/ \E out \in OcrOutcomes : ExtractReturns(i, out)
    \/ \E v \in ValidateOutcomes : ValidateReturns(i, v)
    \/ AuthenticityReturns(i)
    \/ \E out \in PriceOutcomes : PricesReturn(i, out)

\* the App as written: one scan at a time
Next ==
  \/ \E imageData \in ImageDatas : HandleImageCapture(imageData)
  \/ Settle
  \/ HandleScanAgain

Spec == Init /\ [][Next]_vars

\* the hook instance with a caller that may call scanCard at any time
NextReentrant ==
  \/ \E imageData \in ImageDatas : DirectScanCard(imageData)
  \/ Settle
  \/ HandleScanAgain

SpecReentrant == Init /\ [][NextReentrant]_vars

\* ------------------------------------------------- reading an invocation
Events(i, kinds) == SelectSeq(scan[i].trace, LAMBDA e : e.kind \in kinds)

Count(i, ev) == Len(SelectSeq(scan[i].trace, LAMBDA e : e = ev))

Did(i, ev) == Count(i, ev) > 0

Returned(i) == scan[i].pc = "returned"

\* the invocation passed the image-data check
Started(i) == Did(i, SetScanning(TRUE))

CalledOnError(i) == Events(i, {"onError"}) # << >>

Succeeded(i) == Returned(i) /\ Did(i, OnSuccess) /\ ~CalledOnError(i)

Idle == isScanning = FALSE /\ progress = 0 /\ currentStep = 0

IsPrefix(s, t) == Len(s) <= Len(t) /\ \A k \in 1..Len(s) : s[k] = t[k]

\* ------------------------------------------------------------------ claims
\* the validate stage of invocation i has answered null
ValidationMissed(i) ==
  /\ scan[i].pc \in {"awaitAuth", "awaitPrice", "returned"}
  /\ Did(i, Call("verifyCardAuthenticity"))
  /\ scan[i].validatedCard = None

\* C1: when validation returns null for an OCR result that has a name and a
\* set number, the authenticity stage yields isAuthentic = false with
\* confidence 0.4 and the single issue "Card not found in official
\* database", the pricing collaborator is never invoked and the final
\* ScanResult.prices is null.
C1_ValidationMissIsNotAuthentic ==
  \A i \in Slots :
    ( /\ Returned(i)
      /\ ValidationMissed(i)
      /\ Truthy(scan[i].cardInfo.name)
      /\ Truthy(scan[i].cardInfo.setNumber) )
    => /\ scan[i].authenticityResult.isAuthentic = FALSE
       /\ scan[i].authenticityResult.confidence = <<4, 10>>
       /\ scan[i].authenticityResult.issues = << "Card not found in official database" >>
       /\ ~Did(i, Call("getCardPrices"))
       /\ scanResult # None
       /\ scanResult.prices = None

\* C2: a second scanCard issued while an earlier one is in flight is
\* rejected or queued: at no moment are two scans of one hook instance in
\* flight together.
C2_OneScanInFlight ==
  Cardinality({i \in Slots : InFlight(i)}) <= 1

\* C3: once a scanCard invocation has returned, on every exit path, the hook
\* is idle: isScanning = false, progress = 0 and currentStep = 0.
C3_IdleAfterReturn ==
  \A i \in Slots :
    (Returned(i) /\ \A j \in Slots : ~InFlight(j)) => Idle

\* a scan that had reported its first stage has failed with the exception's
\* message and returned, and the hook is idle
C3_Witness ==
  \E i \in Slots :
    /\ Returned(i)
    /\ Did(i, OnError("Network Error"))
    /\ Did(i, Report(0, 25))
    /\ Idle

\* C4: scanCard with base64 null, undefined or empty fails at once: the
\* message is stored and passed to onError, no collaborator is called,
\* isScanning is never set and the invocation stores no ScanResult.
C4_MissingImageRejected ==
  \A i \in Slots :
    (scan[i].pc # "idle" /\ scan[i].imageData.base64 \in {NULL, UNDEFINED, ""})
    => /\ Returned(i)
       /\ scan[i].trace = << SetError(MISSING_IMAGE), OnError(MISSING_IMAGE) >>
       /\ error = MISSING_IMAGE

\* an invocation with an empty base64 string was rejected while an earlier
\* scan's result is still stored
C4_Witness ==
  \E i \in Slots :
    /\ Returned(i)
    /\ scan[i].imageData.base64 = ""
    /\ Did(i, OnError(MISSING_IMAGE))
    /\ scanResult # None
    /\ ~isScanning

\* the OCR collaborator answered null or a card without a name
OcrUnusable(i) ==
  /\ scan[i].ocr # None
  /\ \/ scan[i].ocr.kind = "null"
     \/ scan[i].ocr.kind = "card" /\ scan[i].ocr.card.name = ""

\* C5: when OCR returns null or a CardInfo with an empty name the scan
\* aborts with the OCR-failure message: no later collaborator is invoked,
\* onSuccess is not called and scanResult stays null.
C5_OcrFailureAborts ==
  \A i \in Slots :
    OcrUnusable(i)
    => /\ Returned(i)
       /\ error = OCR_FAILED
       /\ Count(i, OnError(OCR_FAILED)) = 1
       /\ Events(i, {"call"}) = << Call("extractTextFromImage") >>
       /\ ~Did(i, OnSuccess)
       /\ ~Did(i, Store)
       /\ scanResult = None

\* OCR returned a card with an empty name (and other fields set) and the
\* scan has aborted
C5_Witness ==
  \E i \in Slots :
    /\ Returned(i)
    /\ scan[i].ocr # None
    /\ scan[i].ocr.kind = "card"
    /\ scan[i].ocr.card.name = ""
    /\ scan[i].ocr.card.setNumber = "25/102"
    /\ error = OCR_FAILED

\* C6: when the pricing collaborator throws, the scan still completes
\* successfully: onSuccess is called, onError is not, error stays null, and
\* the stored ScanResult has prices = null with cardInfo, validatedCard and
\* authenticity as the earlier stages computed them.
C6_PricingThrowIsSwallowed ==
  \A i \in Slots :
    (scan[i].priceOutcome # None /\ scan[i].priceOutcome.kind = "throw")
    => /\ Succeeded(i)
       /\ Count(i, OnSuccess) = 1
       /\ Events(i, {"setError"}) = << >>
       /\ error = NULL
       /\ scanResult # None
       /\ scanResult.prices = None
       /\ scanResult.cardInfo = scan[i].ocr.card
       /\ scanResult.validatedCard = scan[i].validatedCard
       /\ scanResult.authenticity = scan[i].authenticityResult

\* getCardPrices rejected with an Error and the scan has completed with a
\* validated card in its result
C6_Witness ==
  \E i \in Slots :
    /\ Returned(i)
    /\ scan[i].priceOutcome # None
    /\ scan[i].priceOutcome.kind = "throw"
    /\ scan[i].priceOutcome.err.isError
    /\ scan[i].validatedCard # None
    /\ scanResult # None
    /\ appState = "result"

\* C7: the pricing collaborator is invoked in a scan if and only if the
\* authenticity stage returned isAuthentic = true, at most once per scan;
\* when isAuthentic = false the ScanResult's prices are null.
C7_PricingIffAuthentic ==
  \A i \in Slots :
    /\ Count(i, Call("getCardPrices")) <= 1
    /\ Did(i, Call("getCardPrices"))
         <=> (scan[i].authenticityResult # None
                /\ scan[i].authenticityResult.isAuthentic)
    /\ ( /\ Returned(i)
         /\ scan[i].authenticityResult # None
         /\ ~scan[i].authenticityResult.isAuthentic )
       => (scanResult # None /\ scanResult.prices = None)

\* a scan whose card was not authentic has completed without a pricing call
C7_Witness ==
  \E i \in Slots :
    /\ Succeeded(i)
    /\ scan[i].authenticityResult.isAuthentic = FALSE
    /\ ~Did(i, Call("getCardPrices"))
    /\ scanResult.prices = None

\* C8: a validation miss never fails the scan: the pipeline goes on to the
\* authenticity stage, completes with a ScanResult whose validatedCard is
\* null, reports no error, and the OCR-derived name is used unchanged
\* downstream (pricing query, ScanResult, card handed to onSuccess).
C8_ValidationMissNotFatal ==
  \A i \in Slots :
    ValidationMissed(i)
    => /\ ~CalledOnError(i)
       /\ error = NULL
       /\ scan[i].enrichedCardInfo # None
            => scan[i].enrichedCardInfo.name = scan[i].ocr.card.name
       /\ Returned(i)
            => /\ Succeeded(i)
               /\ scanResult # None
               /\ scanResult.validatedCard = None
               /\ scanResult.cardInfo.name = scan[i].ocr.card.name
               /\ scannedCard # None => scannedCard.name = scan[i].ocr.card.name

\* validation missed, the card was priced under its OCR name and the scan
\* has completed
C8_Witness ==
  \E i \in Slots :
    /\ Returned(i)
    /\ ValidationMissed(i)
    /\ Did(i, Call("getCardPrices"))
    /\ scan[i].enrichedCardInfo.name = "Pikachu"
    /\ scannedCard # None
    /\ scannedCard.name = "Pikachu"

\* what a scan reports and calls, in order, when the card is authentic
ExpectedAuthentic ==
  << Report(0, 0),
     Report(0, 25), Call("extractTextFromImage"),
     Report(1, 50), Call("validateCardWithPokemonAPI"),
     Report(2, 75), Call("verifyCardAuthenticity"),
     Report(3, 90), Call("getCardPrices"),
     Report(3, 100) >>

\* and when it is not: stage 4 is entered but makes no call
ExpectedNotAuthentic ==
  << Report(0, 0),
     Report(0, 25), Call("extractTextFromImage"),
     Report(1, 50), Call("validateCardWithPokemonAPI"),
     Report(2, 75), Call("verifyCardAuthenticity"),
     Report(3, 90),
     Report(3, 100) >>

\* C9: within one scan the stages run in the order Extract, Validate,
\* Authenticate, Price, one call at a time, each stage reported before its
\* work begins as (currentStep, progress) = (0, 0.25), (1, 0.5), (2, 0.75),
\* (3, 0.9), then progress 1 on completion; progress never decreases and no
\* stage is revisited before the terminal reset.
C9_StagesInOrder ==
  \A i \in Slots :
    Started(i)
    => LET ev == Events(i, {"report", "call"})
           rep == Events(i, {"report"})
       IN
       /\ IsPrefix(ev, ExpectedAuthentic) \/ IsPrefix(ev, ExpectedNotAuthentic)
       /\ \A a, b \in 1..Len(rep) :
            a <= b => (rep[a].progress <= rep[b].progress /\ rep[a].step <= rep[b].step)
       /\ scan[i].pc = "awaitOCR" => (currentStep = 0 /\ progress = 25)
       /\ scan[i].pc = "awaitValidate" => (currentStep = 1 /\ progress = 50)
       /\ scan[i].pc = "awaitAuth" => (currentStep = 2 /\ progress = 75)
       /\ scan[i].pc = "awaitPrice" => (currentStep = 3 /\ progress = 90)
       /\ InFlight(i) => (ev[Len(ev)].kind = "call" /\ Events(i, {"reset"}) = << >>)
       /\ Succeeded(i) => ev \in {ExpectedAuthentic, ExpectedNotAuthentic}
       /\ Returned(i) => scan[i].trace[Len(scan[i].trace)].kind = "reset"

\* a scan is waiting for getCardPrices with stage 4 reported, the three
\* earlier calls made in order
C9_Witness ==
  \E i \in Slots :
    /\ scan[i].pc = "awaitPrice"
    /\ currentStep = 3
    /\ progress = 90
    /\ SCAN_STEPS[currentStep + 1] = "Fetching market prices..."
    /\ Len(Events(i, {"call"})) = 4

\* the ScanResult of invocation i was stored after its four stages
StoredAfterStages(i) ==
  /\ Succeeded(i)
  /\ Count(i, Store) = 1
  /\ Did(i, Report(3, 90))
  /\ scan[i].authenticityResult # None
  /\ Did(i, Call("getCardPrices")) => scan[i].priceOutcome # None

OcrThrew(i) == scan[i].ocr # None /\ scan[i].ocr.kind = "throw"

\* the message of the three-way rule: OCR-failure message, else the
\* exception's own message, else the generic one
ThreeWayMessage(i) ==
  IF OcrUnusable(i) THEN OCR_FAILED
  ELSE IF OcrThrew(i) /\ scan[i].ocr.err.isError THEN scan[i].ocr.err.message
  ELSE API_ERROR

\* invocation i failed and propagated msg, once
PropagatedOnce(i, msg) ==
  /\ Events(i, {"setError"}) = << SetError(msg) >>
  /\ Events(i, {"onError"}) = << OnError(msg) >>
  /\ error = msg

\* C11 as stated: on any fatal failure exactly one message is stored in
\* error and passed to onError: the OCR-failure message when OCR yields
\* nothing usable, otherwise the exception's own message, otherwise the
\* generic API-error message.
C11_ThreeMessages ==
  \A i \in Slots :
    (Returned(i) /\ ~Succeeded(i)) => PropagatedOnce(i, ThreeWayMessage(i))

\* C11 amended: on any fatal failure exactly one message is stored in error
\* and passed to onError: the image-data message when the image has no
\* base64, the OCR-failure message when OCR yields nothing usable, otherwise
\* the exception's own message, otherwise the generic API-error message.
C11_OneMessagePerFailure ==
  \A i \in Slots :
    (Returned(i) /\ ~Succeeded(i))
    => PropagatedOnce(i, IF Started(i) THEN ThreeWayMessage(i) ELSE MISSING_IMAGE)

\* the OCR collaborator threw a value that is not an Error and the scan
\* failed with the generic message
C11_Witness ==
  \E i \in Slots :
    /\ Returned(i)
    /\ OcrThrew(i)
    /\ ~scan[i].ocr.err.isError
    /\ error = API_ERROR
    /\ Did(i, OnError(API_ERROR))

\* ------------------------------------------ the scorer applied on its own
others == << scanResult, isScanning, progress, currentStep, error,
             appState, scannedCard, scan, started >>

\* the function fn is about to be applied to input
Pending(fn, input) == [fn |-> fn, input |-> input, done |-> FALSE, output |-> None]

\* calc after fn has returned output
Applied(output) == [calc EXCEPT !.done = TRUE, !.output = output]

ScorerCardInfos ==
  [ name : {"", "Pikachu", "Mew"},
    setNumber : {"", "25/102", "8/25"},
    hp : {"", "60", "120"},
    rarity : {""},
    setName : {UNDEFINED} ]

\* a card and what checkPokemonDatabase : Promise<boolean> answers for it
ScorerInputs == [ cardInfo : ScorerCardInfos, isValidCard : BOOLEAN ]

InitScorer ==
  /\ Constructed
  /\ calc \in { Pending("verifyCardAuthenticity", x) : x \in ScorerInputs }

ApplyScore ==
  /\ calc.fn = "verifyCardAuthenticity"
  /\ ~calc.done
  /\ calc' = Applied(Score(calc.input.cardInfo, calc.input.isValidCard))
  /\ UNCHANGED others

NextScorer == ApplyScore

SpecScorer == InitScorer /\ [][NextScorer]_vars

\* the scorer has returned
Scored == calc.fn = "verifyCardAuthenticity" /\ calc.done

\* C12: whenever the card's name or set number is empty the scorer returns
\* isAuthentic = false, confidence 0.3 and the single issue "Missing
\* essential card information", regardless of HP and of the database
\* answer: this check precedes the database short-circuit.
C12_MissingInfoFirst ==
  (Scored /\ (calc.input.cardInfo.name = "" \/ calc.input.cardInfo.setNumber = ""))
  => /\ calc.output.isAuthentic = FALSE
     /\ calc.output.confidence = <<3, 10>>
     /\ calc.output.issues = << "Missing essential card information" >>

\* a card with a name and HP but no set number, which the database does
\* not know, was scored 0.3
C12_Witness ==
  /\ Scored
  /\ calc.input.cardInfo.name = "Pikachu"
  /\ calc.input.cardInfo.setNumber = ""
  /\ calc.input.cardInfo.hp = "60"
  /\ ~calc.input.isValidCard
  /\ calc.output.confidence = <<3, 10>>

\* the number of checks of a card that are true, three being fixed true
TrueChecks(cardInfo) ==
  3 + (IF cardInfo.name # "" THEN 1 ELSE 0)
    + (IF cardInfo.setNumber # "" THEN 1 ELSE 0)
    + (IF cardInfo.hp # "" THEN 1 ELSE 0)

\* C13: when no short-circuit fires, confidence = (number of true checks)/6,
\* isAuthentic = (confidence > 0.7) and issues is empty; in every result
\* confidence lies in [0, 1].
C13_ConfidenceIsFraction ==
  Scored
  => /\ calc.output.confidence[1] >= 0
     /\ calc.output.confidence[2] > 0
     /\ calc.output.confidence[1] <= calc.output.confidence[2]
     /\ ( /\ calc.input.cardInfo.name # ""
          /\ calc.input.cardInfo.setNumber # ""
          /\ calc.input.isValidCard )
        => /\ calc.output.confidence = << TrueChecks(calc.input.cardInfo), 6 >>
           /\ calc.output.isAuthentic
                <=> (10 * TrueChecks(calc.input.cardInfo) > 7 * 6)
           /\ calc.output.issues = << >>

\* a known card without HP was scored 5/6
C13_Witness ==
  /\ Scored
  /\ calc.input.cardInfo.name = "Mew"
  /\ calc.input.cardInfo.setNumber = "8/25"
  /\ calc.input.cardInfo.hp = ""
  /\ calc.input.isValidCard
  /\ calc.output.confidence = <<5, 6>>

\* ----------------------------------- the price normalizer applied on its own
MaxSources == 2
MaxCents == 30

PriceMaps ==
  { [k \in {} |-> 0],
    [market |-> 1000], [market |-> 0], [market |-> 0 - 100],
    [mid |-> 500], [nm |-> 1400], [average |-> 700],
    [market |-> 0, mid |-> 500],
    [mid |-> 500, nm |-> 1400],
    [low |-> 300, high |-> 900] }

\* a source: null, or tagged, its prices an object or missing
PriceSources ==
  {None} \cup [ source : {"TCGPlayer", "Card Kingdom", "eBay"},
                prices : PriceMaps \cup {None} ]

RECURSIVE SeqsUpTo(_, _)
SeqsUpTo(S, n) ==
  IF n = 0 THEN { << >> }
  ELSE LET shorter == SeqsUpTo(S, n - 1) IN
       shorter \cup { Append(q, e) : q \in { r \in shorter : Len(r) = n - 1 }, e \in S }

PriceDatas ==
  {None} \cup [ cardName : {"Pikachu"}, setNumber : {"25/102"},
                averagePrice : { << >>, << 0 >>, << 0 - 100 >>, << 1250 >> },
                sources : SeqsUpTo(PriceSources, MaxSources) ]

\* number | null: null, and fractions of a cent around zero and up
MarketPrices ==
  { << >>, << Ratio(1200, 1) >>, << Ratio(1250, 1) >> }
    \cup { << Ratio(n, d) >> : n \in (0 - 2)..MaxCents, d \in {1, 3, 10} }

InitPrices ==
  /\ Constructed
  /\ \/ calc \in { Pending("extractMarketPrice", x) : x \in PriceSources }
     \/ calc \in { Pending("getBestAvailablePrice", x) : x \in PriceDatas }
     \/ calc \in { Pending("calculatePriceRange", x) : x \in MarketPrices }

ApplyExtractMarketPrice ==
  /\ calc.fn = "extractMarketPrice"
  /\ ~calc.done
  /\ calc' = Applied(extractMarketPrice(calc.input))
  /\ UNCHANGED others

ApplyGetBestAvailablePrice ==
  /\ calc.fn = "getBestAvailablePrice"
  /\ ~calc.done
  /\ calc' = Applied(getBestAvailablePrice(calc.input))
  /\ UNCHANGED others

ApplyCalculatePriceRange ==
  /\ calc.fn = "calculatePriceRange"
  /\ ~calc.done
  /\ calc' = Applied(calculatePriceRange(calc.input))
  /\ UNCHANGED others

NextPrices ==
  \/ ApplyExtractMarketPrice
  \/ ApplyGetBestAvailablePrice
  \/ ApplyCalculatePriceRange

SpecPrices == InitPrices /\ [][NextPrices]_vars

Computed(fn) == calc.fn = fn /\ calc.done

\* averagePrice is present and > 0
HasAverage(priceData) ==
  priceData # None /\ priceData.averagePrice # << >> /\ priceData.averagePrice[1] > 0

\* C14: for every CardPrices whose averagePrice is present and > 0 the
\* best-available price equals averagePrice exactly, whatever the sources
\* list contains, an empty list included.
C14_AverageIsVerbatim ==
  (Computed("getBestAvailablePrice") /\ HasAverage(calc.input))
  => calc.output = << Ratio(calc.input.averagePrice[1], 1) >>

\* the sources of a CardPrices that yield a price greater than zero
YieldingSources(priceData) ==
  { k \in 1..Len(priceData.sources) :
      LET price == extractMarketPrice(priceData.sources[k]) IN
      price # << >> /\ price[1] > 0 }

RECURSIVE SumOver(_, _)
SumOver(priceData, K) ==
  IF K = {} THEN 0
  ELSE LET k == CHOOSE j \in K : TRUE IN
       extractMarketPrice(priceData.sources[k])[1] + SumOver(priceData, K \ {k})

\* C15: when averagePrice is absent or <= 0 the best-available price is the
\* arithmetic mean of the per-source extracted prices that are > 0, zero,
\* negative and missing values left out of both sum and count, and it is
\* null, never 0, when no source yields such a price.
C15_MeanOfUsablePrices ==
  (Computed("getBestAvailablePrice") /\ calc.input # None /\ ~HasAverage(calc.input))
  => LET K == YieldingSources(calc.input) IN
     IF K = {} THEN calc.output = << >>
     ELSE /\ calc.output # << >>
          /\ calc.output[1].num * Cardinality(K)
               = SumOver(calc.input, K) * calc.output[1].den

\* without an averagePrice, a TCGPlayer market of 0 was left out and the
\* mean is the Card Kingdom nm alone
C15_Witness ==
  /\ Computed("getBestAvailablePrice")
  /\ calc.input # None
  /\ calc.input.averagePrice = << >>
  /\ calc.input.sources = << [source |-> "TCGPlayer", prices |-> [market |-> 0]],
                             [source |-> "Card Kingdom", prices |-> [nm |-> 1400]] >>
  /\ calc.output = << Ratio(1400, 1) >>

\* the value of the first key present among market, mid, average, nm
FirstPresent(prices) ==
  IF "market" \in DOMAIN prices THEN << prices.market >>
  ELSE IF "mid" \in DOMAIN prices THEN << prices.mid >>
  ELSE IF "average" \in DOMAIN prices THEN << prices.average >>
  ELSE IF "nm" \in DOMAIN prices THEN << prices.nm >>
  ELSE << >>

\* C16: a source tagged TCGPlayer yields its market field and nothing else,
\* a source tagged Card Kingdom yields its nm field, any other source yields
\* the first key present among market, mid, average, nm of its prices map
\* and is skipped when none of them is present.
C16_PerTagRule ==
  (Computed("extractMarketPrice") /\ calc.input # None /\ calc.input.prices # None)
  => calc.output =
       IF calc.input.source = "TCGPlayer" THEN Field(calc.input.prices, "market")
       ELSE IF calc.input.source = "Card Kingdom" THEN Field(calc.input.prices, "nm")
       ELSE FirstPresent(calc.input.prices)

\* cents is the whole number of cents nearest to n/d cents
Nearest(cents, n, d) ==
  LET diff == cents * d - n IN 2 * Abs(diff) <= d

\* low and high are 0.8 and 1.2 of the market price, rounded to cents
BandRounded ==
  LET m == calc.input[1] IN
  /\ calc.output.low # << >>
  /\ calc.output.high # << >>
  /\ Nearest(calc.output.low[1], 8 * m.num, 10 * m.den)
  /\ Nearest(calc.output.high[1], 12 * m.num, 10 * m.den)

\* low <= m <= high
BandContainsPrice ==
  LET m == calc.input[1] IN
  /\ calc.output.low[1] * m.den <= m.num
  /\ m.num <= calc.output.high[1] * m.den

HasMarketPrice == calc.input # << >> /\ calc.input[1].num > 0

BandAbsent == calc.output = [ low |-> << >>, high |-> << >> ]

\* C17 as stated: for every market price m > 0, low and high are m*0.8 and
\* m*1.2 rounded to 2 decimals and low <= m <= high; without a market
\* price both are absent.
C17_BandAroundPrice ==
  Computed("calculatePriceRange")
  => IF HasMarketPrice THEN BandRounded /\ BandContainsPrice ELSE BandAbsent

\* C17: for every market price m > 0, low and high are m*0.8 and m*1.2
\* rounded to 2 decimals, and low <= m <= high when m is a whole number of
\* cents or at least 0.025; without a market price both are absent.
C17_BandRounded ==
  Computed("calculatePriceRange")
  => IF HasMarketPrice
     THEN /\ BandRounded
          /\ (calc.input[1].den = 1 \/ 2 * calc.input[1].num >= 5 * calc.input[1].den)
             => BandContainsPrice
     ELSE BandAbsent

\* the band of 12.00 is 9.60 to 14.40
C17_Witness ==
  /\ Computed("calculatePriceRange")
  /\ calc.input = << Ratio(1200, 1) >>
  /\ calc.output = [ low |-> << 960 >>, high |-> << 1440 >> ]

\* C18: whenever the scan's CardPrices has averagePrice > 0, the market
\* price the App finally stores for the result screen (price.market and
\* price.average of the card) equals averagePrice and is not recomputed
\* from a single source's price.
C18_AverageReachesScreen ==
  (appState = "result" /\ scannedCard # None /\ scanResult # None
     /\ HasAverage(scanResult.prices))
  => /\ scannedCard.price.market = << Ratio(scanResult.prices.averagePrice[1], 1) >>
     /\ scannedCard.price.average = << Ratio(scanResult.prices.averagePrice[1], 1) >>

\* -------------------------------------------------------------- text parser
\* A text is a sequence of one-character strings.
WhiteSpace == {" ", "\t", "\n"}

Digits == {"0", "1", "2", "3", "4", "5", "6", "7", "8", "9"}

UpperCase ==
  << "A", "B", "C", "D", "E", "F", "G", "H", "I", "J", "K", "L",
     "M", "N", "O", "P", "Q", "R", "S", "T", "U", "V", "W", "X",
     "Y", "Z" >>

LowerCase ==
  << "a", "b", "c", "d", "e", "f", "g", "h", "i", "j", "k", "l",
     "m", "n", "o", "p", "q", "r", "s", "t", "u", "v", "w", "x",
     "y", "z" >>

Letters == { UpperCase[k] : k \in 1..26 } \cup { LowerCase[k] : k \in 1..26 }

\* \w
WordChars == Letters \cup Digits \cup {"_"}

\* the value of a one-element set: { e : x \in {v} } computes v once for e
Only(S) == CHOOSE x \in S : TRUE

MinOf(S) == CHOOSE x \in S : \A y \in S : x <= y

MaxOf(S) == CHOOSE x \in S : \A y \in S : y <= x

\* line.trim()
Trim(line) ==
  Only({ IF keep = {} THEN << >> ELSE SubSeq(line, MinOf(keep), MaxOf(keep)) :
         keep \in { { k \in 1..Len(line) : line[k] \notin WhiteSpace } } })

\* the n-th of the pieces that the line breaks cut the text into
Piece(text, breaks, n) ==
  LET before == { k \in breaks : Cardinality({ j \in breaks : j <= k }) = n - 1 }
      after == { k \in breaks : Cardinality({ j \in breaks : j <= k }) = n }
  IN SubSeq(text,
            IF before = {} THEN 1 ELSE Only(before) + 1,
            IF after = {} THEN Len(text) ELSE Only(after) - 1)

\* text.split('\n')
Split(text) ==
  Only({ { << n, Piece(text, breaks, n) >> : n \in 1..(Cardinality(breaks) + 1) } :
         breaks \in { { k \in 1..Len(text) : text[k] = "\n" } } })

\* text.split('\n').map(line => line.trim()).filter(line => line), each
\* line with its number in the split
NumberedLines(text) ==
  { l \in { << piece[1], Trim(piece[2]) >> : piece \in Split(text) } : l[2] # << >> }

\* the lines that are left, in their order
Lines(text) ==
  Only({ [ n \in 1..Cardinality(numbered) |->
             Only({ l \in numbered :
                      Cardinality({ m \in numbered : m[1] <= l[1] }) = n })[2] ] :
         numbered \in { NumberedLines(text) } })

\* the last index of the longest run of characters of S that starts at p,
\* p - 1 when line[p] is not in S
RunEnd(line, p, S) ==
  LET ends == { q \in (p - 1)..Len(line) : \A j \in p..q : line[j] \in S } IN
  IF ends = {} THEN p - 1 ELSE MaxOf(ends)

\* HP at p, case-insensitive
IsHP(line, p) ==
  /\ p >= 1
  /\ p + 1 <= Len(line)
  /\ line[p] \in {"H", "h"}
  /\ line[p + 1] \in {"P", "p"}

\* \s+(?:HP\s*)?(\d+)\s*HP matched at p: the span << q, d >> of the digits,
\* in a set that is empty when there is no match.  Every quantifier is
\* followed by a character outside its class, so only the longest runs can
\* match: a is the end of \s+, q the start and d the end of \d+.
TailDigitsHP(line, p) ==
  UNION { UNION { { << q, d >> :
                    d \in { r \in { RunEnd(line, q, Digits) } :
                              /\ r >= q
                              /\ IsHP(line, RunEnd(line, r + 1, WhiteSpace) + 1) } } :
                  q \in { IF IsHP(line, a + 1)
                          THEN RunEnd(line, a + 3, WhiteSpace) + 1
                          ELSE a + 1 } } :
          a \in { r \in { RunEnd(line, p, WhiteSpace) } : r >= p } }

\* \s+HP\s*(\d+) matched at p, in the same way
TailHPDigits(line, p) ==
  UNION { UNION { { << q, d >> :
                    d \in { r \in { RunEnd(line, q, Digits) } : r >= q } } :
                  q \in { RunEnd(line, a + 3, WhiteSpace) + 1 } } :
          a \in { r \in { RunEnd(line, p, WhiteSpace) } :
                    r >= p /\ IsHP(line, r + 1) } }

\* the rest of the first or of the second pattern, after (\w+.*?)
MatchTail(tail, line, p) ==
  IF tail = "digitsHP" THEN TailDigitsHP(line, p) ELSE TailHPDigits(line, p)

\* (\w+.*?) started at s and followed by the tail: the end of the group the
\* backtracking finds first, 0 if none.  \w+ takes the whole run first and
\* .*? grows from there; then \w+ gives back one character at a time.
GroupEnd(line, s, tail) ==
  Only({ IF { e \in ok : e >= w } # {} THEN MinOf({ e \in ok : e >= w })
         ELSE IF ok # {} THEN MaxOf(ok)
         ELSE 0 :
         ok \in { { e \in s..Len(line) : MatchTail(tail, line, e + 1) # {} } },
         w \in { RunEnd(line, s, WordChars) } })

\* groups 1 and 2 of the match that starts at s
Groups(line, s, tail) ==
  Only({ [ group1 |-> SubSeq(line, s, e),
           group2 |-> SubSeq(line, Only(MatchTail(tail, line, e + 1))[1],
                                   Only(MatchTail(tail, line, e + 1))[2]) ] :
         e \in { GroupEnd(line, s, tail) } })

\* line.match(/(\w+.*?)<tail>/i): groups 1 and 2 of the leftmost match
Match(line, tail) ==
  Only({ IF starts = {} THEN None ELSE Groups(line, MinOf(starts), tail) :
         starts \in { { s \in 1..Len(line) :
                          line[s] \in WordChars /\ GroupEnd(line, s, tail) # 0 } } })

\* line.match(first) || line.match(second)
hpMatch(line) ==
  Only({ IF first # None THEN first ELSE Match(line, "hpDigits") :
         first \in { Match(line, "digitsHP") } })

RECURSIVE ScanLines(_, _, _)

\* a match that does not end the loop: a later matching line replaces it
FoundKeepsScanning(m, lines, i) ==
  Only({ IF later.hp # << >> THEN later
         ELSE [ name |-> Trim(m.group1), hp |-> m.group2 ] :
         later \in { ScanLines(lines, i + 1, Trim(m.group1)) } })

\* name = hpMatch[1].trim(); hp = hpMatch[2]; break
Found(m, lines, i) == [ name |-> Trim(m.group1), hp |-> m.group2 ]

\* a fallback that takes every line without a match
FallbackNameEveryLine(i, name, line) == line

\* if (i === 0 && !cardInfo.name) cardInfo.name = line
FallbackName(i, name, line) == IF i = 1 /\ name = << >> THEN line ELSE name

\* the loop over lines from line i on, name being cardInfo.name so far
ScanLines(lines, i, name) ==
  IF i > Len(lines) THEN [ name |-> name, hp |-> << >> ]
  ELSE Only({ IF m # None THEN Found(m, lines, i)
              ELSE ScanLines(lines, i + 1, FallbackName(i, name, lines[i])) :
              m \in { hpMatch(lines[i]) } })

\* name and hp of parseCardInfo(text)
parseCardInfo(text) ==
  Only({ ScanLines(lines, 1, << >>) : lines \in { Lines(text) } })

\* ------------------------------------------- the parser applied on its own
MaxLines == 3

\* raw lines of a card's text: blank, padded, with HP after or before the
\* digits, and near misses
RawLines ==
  { << >>,
    << " " >>,
    << "M", "e", "w" >>,
    << " ", "A", "b", "r", "a", " " >>,
    << "M", "e", "w", " ", "6", "0", " ", "H", "P" >>,
    << "A", "b", "r", "a", " ", "H", "P", " ", "3", "0" >>,
    << "M", "e", "w", " ", "H", "P", " ", "6", "0", " ", "H", "P" >>,
    << "M", "e", "w", " ", "2", " ", "7", "0", "H", "P" >>,
    << "H", "P", " ", "6", "0" >>,
    << "-", "A", "b", "r", "a", " ", "3", "0", "h", "p" >>,
    << "M", "e", "w", "6", "0", " ", "H", "P" >>,
    << "P", "a", " ", "H", "P", "3", " ", "M", " ", "7", "H", "P" >> }

\* the lines joined by line breaks
RECURSIVE JoinLines(_)
JoinLines(rawLines) ==
  IF rawLines = << >> THEN << >>
  ELSE IF Len(rawLines) = 1 THEN Head(rawLines)
  ELSE Head(rawLines) \o << "\n" >> \o JoinLines(Tail(rawLines))

Texts == { JoinLines(rawLines) : rawLines \in SeqsUpTo(RawLines, MaxLines) }

InitParser ==
  /\ Constructed
  /\ calc \in { Pending("parseCardInfo", x) : x \in Texts }

ApplyParseCardInfo ==
  /\ calc.fn = "parseCardInfo"
  /\ ~calc.done
  /\ calc' = Applied(parseCardInfo(calc.input))
  /\ UNCHANGED others

NextParser == ApplyParseCardInfo

SpecParser == InitParser /\ [][NextParser]_vars

AllIn(line, a, b, S) == \A j \in a..b : line[j] \in S

\* line[a..b] is white space, at least one character
IsGap(line, a, b) == a <= b /\ AllIn(line, a, b, WhiteSpace)

\* line[a..b] is white space, HP, optional white space
IsGapWithHP(line, a, b) ==
  \E h \in (a + 1)..(b - 1) :
    IsGap(line, a, h - 1) /\ IsHP(line, h) /\ AllIn(line, h + 2, b, WhiteSpace)

\* the digits that start at d are followed by optional white space and HP
EndsInHP(line, d) ==
  LET last == RunEnd(line, d, Digits) IN
  \E h \in (last + 1)..Len(line) :
    AllIn(line, last + 1, h - 1, WhiteSpace) /\ IsHP(line, h)

\* the readings of a line as '<name> [HP] <digits> HP'
ReadingsDigitsHP(line) ==
  { [ name |-> Trim(SubSeq(line, t[1], t[2])),
      hp |-> SubSeq(line, t[3], RunEnd(line, t[3], Digits)) ] :
    t \in { u \in (1..Len(line)) \X (1..Len(line)) \X (1..Len(line)) :
              /\ u[1] <= u[2]
              /\ u[2] + 1 < u[3]
              /\ line[u[1]] \in WordChars
              /\ line[u[3]] \in Digits
              /\ IsGap(line, u[2] + 1, u[3] - 1) \/ IsGapWithHP(line, u[2] + 1, u[3] - 1)
              /\ EndsInHP(line, u[3]) } }

\* the readings of a line as '<name> HP <digits>'
ReadingsHPDigits(line) ==
  { [ name |-> Trim(SubSeq(line, t[1], t[2])),
      hp |-> SubSeq(line, t[3], RunEnd(line, t[3], Digits)) ] :
    t \in { u \in (1..Len(line)) \X (1..Len(line)) \X (1..Len(line)) :
              /\ u[1] <= u[2]
              /\ u[2] + 1 < u[3]
              /\ line[u[1]] \in WordChars
              /\ line[u[3]] \in Digits
              /\ IsGapWithHP(line, u[2] + 1, u[3] - 1) } }

Readings(line) == ReadingsDigitsHP(line) \cup ReadingsHPDigits(line)

Parsed == calc.fn = "parseCardInfo" /\ calc.done

\* the first line is the name and there is no hp; no line, no name
FirstLineOnly(lines) ==
  [ name |-> IF lines = << >> THEN << >> ELSE lines[1], hp |-> << >> ]

\* C19 as stated: of the non-empty trimmed lines, the first that matches
\* '<name> [HP] <digits> HP' gives both name and hp, whatever the first
\* line is and whatever later lines match.
C19_FirstPatternLineWins ==
  Parsed
  => \A lines \in { Lines(calc.input) } :
       \A hpLines \in { { k \in 1..Len(lines) : ReadingsDigitsHP(lines[k]) # {} } } :
         hpLines # {} => calc.output \in ReadingsDigitsHP(lines[MinOf(hpLines)])

\* C19: of the non-empty trimmed lines, the first that matches
\* '<name> [HP] <digits> HP' or '<name> HP <digits>' gives both name and
\* hp, whatever the first line is and whatever later lines match.
C19_FirstHpLineWins ==
  Parsed
  => \A lines \in { Lines(calc.input) } :
       \A hpLines \in { { k \in 1..Len(lines) : Readings(lines[k]) # {} } } :
         hpLines # {} => calc.output \in Readings(lines[MinOf(hpLines)])

\* the second of three lines gave name and hp: the first line has no HP,
\* the third has one too
C19_Witness ==
  /\ Parsed
  /\ calc.input = JoinLines(<< << "M", "e", "w" >>,
                              << "A", "b", "r", "a", " ", "H", "P", " ", "3", "0" >>,
                              << "M", "e", "w", " ", "6", "0", " ", "H", "P" >> >>)
  /\ calc.output = [ name |-> << "A", "b", "r", "a" >>, hp |-> << "3", "0" >> ]

\* C20 as stated: when no line matches '<name> [HP] <digits> HP', name is
\* the first non-empty trimmed line and hp is empty; with no non-empty
\* line, name is empty.
C20_NoPatternLineFallback ==
  Parsed
  => \A lines \in { Lines(calc.input) } :
       (\A k \in 1..Len(lines) : ReadingsDigitsHP(lines[k]) = {})
       => calc.output = FirstLineOnly(lines)

\* C20: when no line matches '<name> [HP] <digits> HP' or
\* '<name> HP <digits>', name is the first non-empty trimmed line and hp is
\* empty; with no non-empty line, name is empty.
C20_NoHpLineFallback ==
  Parsed
  => \A lines \in { Lines(calc.input) } :
       (\A k \in 1..Len(lines) : Readings(lines[k]) = {})
       => calc.output = FirstLineOnly(lines)

\* after a blank line, the padded line gave the name, trimmed; the line
\* after it has HP but no name before it
C20_Witness ==
  /\ Parsed
  /\ calc.input = JoinLines(<< << " " >>,
                              << " ", "A", "b", "r", "a", " " >>,
                              << "H", "P", " ", "6", "0" >> >>)
  /\ calc.output = [ name |-> << "A", "b", "r", "a" >>, hp |-> << >> ]

\* ------------------------------------------ type and rarity of the parser
\* the glyphs of the rarity symbols, each one character of a text
Star == "<star>"

Diamond == "<diamond>"

Circle == "<circle>"

POKEMON_TYPES ==
  << << "F", "i", "r", "e" >>,
     << "W", "a", "t", "e", "r" >>,
     << "G", "r", "a", "s", "s" >>,
     << "E", "l", "e", "c", "t", "r", "i", "c" >>,
     << "P", "s", "y", "c", "h", "i", "c" >>,
     << "F", "i", "g", "h", "t", "i", "n", "g" >>,
     << "D", "a", "r", "k" >>,
     << "S", "t", "e", "e", "l" >>,
     << "F", "a", "i", "r", "y" >>,
     << "D", "r", "a", "g", "o", "n" >>,
     << "N", "o", "r", "m", "a", "l" >>,
     << "C", "o", "l", "o", "r", "l", "e", "s", "s" >> >>

\* a letter without its case, as the i flag compares
ToLower(c) ==
  IF \E k \in 1..26 : UpperCase[k] = c
  THEN LowerCase[CHOOSE k \in 1..26 : UpperCase[k] = c]
  ELSE c

\* \b between text[k - 1] and text[k]
WordBoundary(text, k) ==
  (k - 1 \in 1..Len(text) /\ text[k - 1] \in WordChars)
    # (k \in 1..Len(text) /\ text[k] \in WordChars)

\* /\bword\b/i matches at k
WordAt(text, k, word) ==
  /\ k + Len(word) - 1 <= Len(text)
  /\ \A j \in 1..Len(word) : ToLower(text[k + j - 1]) = ToLower(word[j])
  /\ WordBoundary(text, k)
  /\ WordBoundary(text, k + Len(word))

\* typeMatch[1] of text.match(/\b(Fire|...|Colorless)\b/i), '' without a
\* match: the leftmost match, the alternatives tried in their order
typeOf(text) ==
  Only({ IF hits = {} THEN << >>
         ELSE Only({ SubSeq(text, h[1], h[1] + Len(POKEMON_TYPES[h[2]]) - 1) :
                     h \in { g \in hits : \A f \in hits :
                               g[1] < f[1] \/ (g[1] = f[1] /\ g[2] <= f[2]) } }) :
         hits \in { { h \in (1..Len(text)) \X (1..Len(POKEMON_TYPES)) :
                        WordAt(text, h[1], POKEMON_TYPES[h[2]]) } } })

\* text.includes(glyph)
Includes(text, glyph) == \E k \in 1..Len(text) : text[k] = glyph

\* a chain that tests the filled circle first
rarityOfCircleFirst(text) ==
  IF Includes(text, Circle) THEN "Common"
  ELSE IF Includes(text, Diamond) THEN "Uncommon"
  ELSE IF Includes(text, Star)
            \/ \E k \in 1..Len(text) : WordAt(text, k, << "R", "a", "r", "e" >>)
  THEN "Rare"
  ELSE ""

\* the if / else if chain on the rarity symbols
rarityOf(text) ==
  IF Includes(text, Star)
       \/ \E k \in 1..Len(text) : WordAt(text, k, << "R", "a", "r", "e" >>)
  THEN "Rare"
  ELSE IF Includes(text, Diamond) THEN "Uncommon"
  ELSE IF Includes(text, Circle) THEN "Common"
  ELSE ""

\* type and rarity of parseCardInfo(text)
parseTypeAndRarity(text) == [ type |-> typeOf(text), rarity |-> rarityOf(text) ]

MaxWords == 3

\* pieces of a card's text: glyphs, words in either case, longer words
Words ==
  { << "<star>" >>,
    << "<diamond>" >>,
    << "<circle>" >>,
    << "R", "a", "r", "e" >>,
    << "r", "a", "r", "e" >>,
    << "R", "a", "r", "e", "l", "y" >>,
    << "F", "i", "r", "e" >>,
    << "f", "i", "r", "e" >>,
    << "F", "i", "r", "e", "s" >>,
    << "W", "a", "t", "e", "r" >>,
    << "M", "e", "w" >> }

\* the words with one space between them
RECURSIVE JoinWords(_)
JoinWords(words) ==
  IF words = << >> THEN << >>
  ELSE IF Len(words) = 1 THEN Head(words)
  ELSE Head(words) \o << " " >> \o JoinWords(Tail(words))

MarkerTexts == { JoinWords(words) : words \in SeqsUpTo(Words, MaxWords) }

InitMarkers ==
  /\ Constructed
  /\ calc \in { Pending("parseTypeAndRarity", x) : x \in MarkerTexts }

ApplyParseTypeAndRarity ==
  /\ calc.fn = "parseTypeAndRarity"
  /\ ~calc.done
  /\ calc' = Applied(parseTypeAndRarity(calc.input))
  /\ UNCHANGED others

NextMarkers == ApplyParseTypeAndRarity

SpecMarkers == InitMarkers /\ [][NextMarkers]_vars

Marked == calc.fn = "parseTypeAndRarity" /\ calc.done

\* the text has the word Rare, in any letter case, with no letter, digit
\* or underscore next to it
HasWordRare(text) ==
  \E k \in 1..(Len(text) - 3) :
    /\ text[k] \in {"R", "r"}
    /\ text[k + 1] \in {"A", "a"}
    /\ text[k + 2] \in {"R", "r"}
    /\ text[k + 3] \in {"E", "e"}
    /\ k = 1 \/ text[k - 1] \notin WordChars
    /\ k + 3 = Len(text) \/ text[k + 4] \notin WordChars

\* C21: rarity is "Rare" if the text contains a star glyph or the whole
\* word Rare; otherwise "Uncommon" if it contains a diamond glyph;
\* otherwise "Common" if it contains a filled-circle glyph; otherwise
\* empty.  A higher-priority marker wins when several are present.
C21_RarityPriority ==
  Marked
  => calc.output.rarity =
       IF (\E k \in 1..Len(calc.input) : calc.input[k] = Star) \/ HasWordRare(calc.input)
       THEN "Rare"
       ELSE IF \E k \in 1..Len(calc.input) : calc.input[k] = Diamond THEN "Uncommon"
       ELSE IF \E k \in 1..Len(calc.input) : calc.input[k] = Circle THEN "Common"
       ELSE ""

\* a text with a filled circle, a diamond and the word rare is Rare
C21_Witness ==
  /\ Marked
  /\ calc.input = << Circle, " ", Diamond, " ", "r", "a", "r", "e" >>
  /\ calc.output.rarity = "Rare"

\* C22: for every input text the type of the parsed CardInfo is empty or
\* exactly one of the twelve names of the type vocabulary.
C22_TypeInVocabulary ==
  Marked
  => \/ calc.output.type = << >>
     \/ \E n \in 1..Len(POKEMON_TYPES) : calc.output.type = POKEMON_TYPES[n]

\* ------------------------------------------------- enrichment (claim C23)
\* C23: the CardInfo handed to getCardPrices is the OCR CardInfo with name
\* and setName taken from the validated record when there is one; when
\* validation returned null the name and the setName are the OCR ones, and
\* every other field is the OCR field
C23_EnrichmentKeepsOcrFields ==
  \A i \in Slots :
    scan[i].enrichedCardInfo # None
    => scan[i].enrichedCardInfo =
         IF scan[i].validatedCard = None
         THEN scan[i].cardInfo
         ELSE [ scan[i].cardInfo EXCEPT
                  !.name = scan[i].validatedCard.name,
                  !.setName = scan[i].validatedCard.set.name ]

\* ---------------------------------------------------- the pricing service
\* Cards of the price-tracker API.  tcgplayer, cardmarket and ebay are the
\* price maps of the card, None when the card has none; prices are whole
\* cents, chosen so that every mean below is a whole number of cents.  An
\* id is a sequence of characters.
TrackerCards ==
  { [ id |-> <<"b","a","s","e","-","2","5">>, name |-> "Pikachu", number |-> "25",
      tcgplayer |-> [market |-> 1000], cardmarket |-> [market |-> 1400],
      ebay |-> [raw |-> 600] ],
    [ id |-> <<"b","a","s","e","-","7">>, name |-> "Pikachu", number |-> "7",
      tcgplayer |-> None, cardmarket |-> None, ebay |-> None ],
    [ id |-> <<"s","w","s","h","2","5","-","8">>, name |-> "Pikachu V", number |-> "8",
      tcgplayer |-> [market |-> 800], cardmarket |-> None, ebay |-> None ] }

MaxCards == 2

\* what a request to the API settles with: a rejection (a network error, a
\* missing API key or the 30 second timeout of the client) or a list of cards
TrackerResponses ==
  { [kind |-> "error", data |-> << >>] }
    \cup { [kind |-> "data", data |-> cards] : cards \in SeqsUpTo(TrackerCards, MaxCards) }

\* the API as one call of getCardPrices sees it
TrackerApis == [ byName : TrackerResponses, bySet : TrackerResponses ]

\* the draws of Math.random in the mock prices: the TCGPlayer market price
\* and the Card Kingdom near-mint price, in cents
MockDraws == [ market : {400, 600}, nm : {450, 550} ]

\* searchCardsByName and searchCardsBySetAndNumber: the cards of the
\* response, none when the request failed
searchCardsByName(response) ==
  IF response.kind = "error" THEN << >> ELSE response.data

searchCardsBySetAndNumber(response) ==
  IF response.kind = "error" THEN << >> ELSE response.data

\* setNumber.split('/')[0] for the set numbers of CardInfos
CardNumberOf(setNumber) == IF setNumber = "25/102" THEN "25" ELSE setNumber

\* the characters of a card number
NumberChars(number) ==
  IF number = "25" THEN <<"2","5">>
  ELSE IF number = "7" THEN <<"7">>
  ELSE IF number = "8" THEN <<"8">>
  ELSE <<"2","5","/","1","0","2">>

\* id.includes(part)
IdIncludes(id, part) ==
  \E k \in 0..(Len(id) - Len(part)) : SubSeq(id, k + 1, k + Len(part)) = part

\* the average of the truthy market prices of a card, none when it has none
getBestMarketPrice(card) ==
  Only({ IF prices = << >> THEN << >> ELSE << Sum(prices) \div Len(prices) >> :
         prices \in
           { (IF card.tcgplayer # None /\ card.tcgplayer.market # 0
                 THEN << card.tcgplayer.market >> ELSE << >>)
             \o (IF card.cardmarket # None /\ card.cardmarket.market # 0
                 THEN << card.cardmarket.market >> ELSE << >>)
             \o (IF card.ebay # None /\ card.ebay.raw # 0
                 THEN << card.ebay.raw >> ELSE << >>) } })

\* the first card of cards that matches the set number, None when none does
FindByNumber(cards, setNumber) ==
  Only({ IF hits = {} THEN None ELSE cards[MinOf(hits)] :
         hits \in { { k \in 1..Len(cards) :
                        \/ cards[k].number = CardNumberOf(setNumber)
                        \/ cards[k].number = setNumber
                        \/ IdIncludes(cards[k].id, NumberChars(CardNumberOf(setNumber))) } } })

\* the mock prices: both mock sources and their mean
createMockPriceData(cardName, setNumber, draw) ==
  [ cardName |-> cardName,
    setNumber |-> IF Truthy(setNumber) THEN setNumber ELSE "unknown",
    averagePrice |-> << (draw.market + draw.nm) \div 2 >>,
    sources |-> << [source |-> "TCGPlayer", prices |-> [market |-> draw.market]],
                   [source |-> "Card Kingdom", prices |-> [nm |-> draw.nm]] >> ]

\* the CardPrices built from the matched card: a source for each price map
\* the card has
FormatMatch(bestMatch, setNumber) ==
  [ cardName |-> bestMatch.name,
    setNumber |-> IF Truthy(setNumber) THEN setNumber ELSE bestMatch.number,
    averagePrice |-> getBestMarketPrice(bestMatch),
    sources |->
      (IF bestMatch.tcgplayer # None
       THEN << [source |-> "TCGPlayer", prices |-> [market |-> bestMatch.tcgplayer.market]] >>
       ELSE << >>)
      \o (IF bestMatch.cardmarket # None
          THEN << [source |-> "Card Kingdom", prices |-> [nm |-> bestMatch.cardmarket.market]] >>
          ELSE << >>) ]

getPokemonPriceTrackerData(cardName, setNumber, setName, api, draw) ==
  Only({ IF Len(cards) = 0
         THEN createMockPriceData(cardName, setNumber, draw)
         ELSE Only({ Only({ FormatMatch(bestMatch, setNumber) :
                            bestMatch \in
                              { IF byNumber # None THEN byNumber
                                ELSE IF Truthy(setNumber) /\ Truthy(setName) /\ Len(setCards) > 0
                                THEN setCards[1]
                                ELSE cards[1] } }) :
                     byNumber \in { IF Truthy(setNumber)
                                    THEN FindByNumber(cards, setNumber) ELSE None } }) :
         cards \in { searchCardsByName(api.byName) },
         setCards \in { searchCardsBySetAndNumber(api.bySet) } })

\* a getCardPrices that returns what the price tracker gave
getCardPricesNoFallback(cardInfo, api, draw) ==
  [ kind |-> "prices",
    prices |-> getPokemonPriceTrackerData(cardInfo.name, cardInfo.setNumber,
                                          cardInfo.setName, api, draw) ]

\* getCardPrices, as what the awaited promise settles with
getCardPrices(cardInfo, api, draw) ==
  Only({ IF priceData # None /\ Len(priceData.sources) > 0
         THEN [kind |-> "prices", prices |-> priceData]
         ELSE [kind |-> "prices",
               prices |-> createMockPriceData(cardInfo.name, cardInfo.setNumber, draw)] :
         priceData \in { getPokemonPriceTrackerData(cardInfo.name, cardInfo.setNumber,
                                                    cardInfo.setName, api, draw) } })

\* ------------------------------------------ the App with its pricing service
\* getCardPrices settles with what the pricing service computes
PricesReturnFromService(i) ==
  /\ scan[i].pc = "awaitPrice"
  /\ \E api \in TrackerApis, draw \in MockDraws :
       PricesReturn(i, getCardPrices(scan[i].enrichedCardInfo, api, draw))

NextComposed ==
  \/ \E imageData \in ImageDatas : HandleImageCapture(imageData)
  \/ \E i \in Slots, out \in OcrOutcomes : ExtractReturns(i, out)
  \/ \E i \in Slots, v \in ValidateOutcomes : ValidateReturns(i, v)
  \/ \E i \in Slots : AuthenticityReturns(i)
  \/ \E i \in Slots : PricesReturnFromService(i)
  \/ HandleScanAgain

SpecComposed == Init /\ [][NextComposed]_vars

\* C29: getCardPrices never throws and never returns null: whatever the
\* CardInfo and whatever the price-tracker API does, it returns a CardPrices
\* with at least one source; so a stored ScanResult has prices null only
\* when the pricing stage was skipped
C29_PricesNullOnlyWhenSkipped ==
  \A i \in Slots :
    /\ scan[i].priceOutcome # None
       => /\ scan[i].priceOutcome.kind = "prices"
          /\ scan[i].priceOutcome.prices # None
          /\ Len(scan[i].priceOutcome.prices.sources) >= 1
    /\ Returned(i) /\ Did(i, Store) /\ scan[i].priceData = None
       => ~Did(i, Call("getCardPrices"))

\* a scan whose pricing stage ran stored the mock prices
C29_Witness ==
  \E i \in Slots :
    /\ Returned(i) /\ Did(i, Store)
    /\ Did(i, Call("getCardPrices"))
    /\ scan[i].priceData # None
    /\ scan[i].priceData.averagePrice = << 425 >>
    /\ Len(scan[i].priceData.sources) = 2
    /\ scanResult # None
    /\ scanResult.prices = scan[i].priceData

\* ------------------------------------------------ collaborators that hang
\* what mockExtractTextFromImage returns: a card with every field filled
MockCardInfos ==
  { c \in CardInfos :
      Truthy(c.name) /\ Truthy(c.setNumber) /\ Truthy(c.hp) /\ Truthy(c.setName) }

\* the Vision API does not answer: after the 30 second timeout the request
\* rejects and extractTextFromImage returns the mock card from its catch
OcrTimesOut(i) ==
  /\ scan[i].pc = "awaitOCR"
  /\ \E c \in MockCardInfos : ExtractReturns(i, [kind |-> "card", card |-> c])

\* the price tracker does not answer: after the 30 second timeout of its
\* client both searches have failed
PricesTimeOut(i) ==
  /\ scan[i].pc = "awaitPrice"
  /\ \E draw \in MockDraws :
       PricesReturn(i, getCardPrices(scan[i].enrichedCardInfo,
                                     [ byName |-> [kind |-> "error", data |-> << >>],
                                       bySet |-> [kind |-> "error", data |-> << >>] ],
                                     draw))

NextTimed ==
  \/ NextComposed
  \/ \E i \in Slots : OcrTimesOut(i)
  \/ \E i \in Slots : PricesTimeOut(i)

\* A collaborator may answer or never answer.  The timers of the OCR request
\* and of the price tracker client fire when nothing else settled the call,
\* and verifyCardAuthenticity is local; the request of
\* validateCardWithPokemonAPI has no timeout, so nothing makes it settle.
SpecTimed ==
  /\ Init
  /\ [][NextTimed]_vars
  /\ WF_vars(\E i \in Slots : OcrTimesOut(i))
  /\ WF_vars(\E i \in Slots : AuthenticityReturns(i))
  /\ WF_vars(\E i \in Slots : PricesTimeOut(i))

\* C24: every scan that has started eventually terminates and the hook is
\* idle again (isScanning = false), even when a collaborator never responds
C24_EveryScanTerminates == isScanning ~> ~isScanning

\* ------------------------------------------------------------- teardown
\* the component that owns the hook is unmounted
Unmount == [kind |-> "unmount", name |-> "", step |-> 0, progress |-> 0]

TornDown == \E i \in Slots : Did(i, Unmount)

\* React unmounts the hosting component while a scan is in flight.  The hook
\* registers no cleanup and scanCard holds no cancellation flag, so nothing
\* of the scan changes; the unmount is noted in the trace of the scans that
\* are in flight
Teardown ==
  /\ ~TornDown
  /\ \E i \in Slots : InFlight(i)
  /\ scan' = [ i \in Slots |->
                 IF InFlight(i)
                 THEN [scan[i] EXCEPT !.trace = @ \o << Unmount >>]
                 ELSE scan[i] ]
  /\ UNCHANGED << hook, appState, scannedCard, started, calc >>

\* a picture taken on the camera screen, which is gone after the unmount
HandleImageCaptureMounted(imageData) ==
  /\ ~TornDown
  /\ HandleImageCapture(imageData)

HandleScanAgainMounted ==
  /\ ~TornDown
  /\ HandleScanAgain

NextTeardown ==
  \/ \E imageData \in ImageDatas : HandleImageCaptureMounted(imageData)
  \/ Settle
  \/ HandleScanAgainMounted
  \/ Teardown

SpecTeardown == Init /\ [][NextTeardown]_vars

\* C25: after the hosting UI is torn down while a scan is in flight, the
\* scan calls no state setter (setProgress, setCurrentStep, setScanResult,
\* setError) and neither onSuccess nor onError
C25_NothingAfterTeardown ==
  \A i \in Slots :
    \A k \in 1..Len(scan[i].trace), j \in 1..Len(scan[i].trace) :
      scan[i].trace[k] = Unmount /\ k < j
      => scan[i].trace[j].kind \notin
           {"report", "reset", "setScanResult", "setError", "onSuccess", "onError"}

\* ------------------------------------------- callbacks that may throw
\* "Complete" to the end of scanCard when the onSuccess callback of the
\* caller throws err before it does anything: the call is inside the try, so
\* the catch sets the error and calls onError, and the finally block runs
CompleteOnSuccessThrows(i, sc, priceData, err) ==
  /\ scanResult' = MakeScanResult(sc.cardInfo, sc.validatedCard,
                                  sc.authenticityResult, priceData)
  /\ error' = ErrorMessageOf(err)
  /\ appState' = "camera"
  /\ isScanning' = Finally(100, 3).isScanning
  /\ progress' = Finally(100, 3).progress
  /\ currentStep' = Finally(100, 3).currentStep
  /\ scan' = [scan EXCEPT ![i] =
                [sc EXCEPT !.pc = "returned",
                           !.priceData = priceData,
                           !.trace = sc.trace \o
                             << Report(3, 100), Store, OnSuccess,
                                SetError(ErrorMessageOf(err)), OnError(ErrorMessageOf(err)),
                                SetScanning(Finally(100, 3).isScanning),
                                Reset(Finally(100, 3).currentStep, Finally(100, 3).progress) >>]]
  /\ UNCHANGED << scannedCard, started, calc >>

\* verifyCardAuthenticity settles for a card that is not authentic, and the
\* onSuccess callback throws
AuthenticityReturnsOnSuccessThrows(i, err) ==
  /\ scan[i].pc = "awaitAuth"
  /\ ~ShouldFetchPrices(verifyCardAuthenticity(scan[i].cardInfo))
  /\ CompleteOnSuccessThrows(
       i,
       [scan[i] EXCEPT !.authenticityResult = verifyCardAuthenticity(scan[i].cardInfo),
                       !.trace = @ \o << Report(3, StageProgress(3)) >>],
       None, err)

\* getCardPrices settles, and the onSuccess callback throws
PricesReturnOnSuccessThrows(i, out, err) ==
  /\ scan[i].pc = "awaitPrice"
  /\ ~PriceStage(out).rethrown
  /\ CompleteOnSuccessThrows(i, [scan[i] EXCEPT !.priceOutcome = out],
                             PriceStage(out).priceData, err)

\* the hook with a caller whose onSuccess callback may throw
NextCallbacks ==
  \/ Next
  \/ \E i \in Slots, err \in Thrown : AuthenticityReturnsOnSuccessThrows(i, err)
  \/ \E i \in Slots, out \in PriceOutcomes, err \in Thrown :
       PricesReturnOnSuccessThrows(i, out, err)

SpecCallbacks == Init /\ [][NextCallbacks]_vars

\* C26: every invocation of scanCard that has returned called exactly one of
\* onSuccess and onError, exactly once; and one that stored a ScanResult and
\* called onSuccess neither set the error nor called onError, even when the
\* onSuccess callback threw
C26_ExactlyOneCallback ==
  \A i \in Slots :
    Returned(i)
    => /\ Len(Events(i, {"onSuccess", "onError"})) = 1
       /\ Did(i, Store) /\ Did(i, OnSuccess)
          => Events(i, {"setError", "onError"}) = << >>

\* ------------------------------------------------ resetScan and clearError
\* resetScan of the hook, called while no scan is in flight
ResetScan ==
  /\ \A i \in Slots : ~InFlight(i)
  /\ scanResult' = None
  /\ error' = NULL
  /\ progress' = 0
  /\ currentStep' = 0
  /\ UNCHANGED << isScanning, appState, scannedCard, scan, started, calc >>

\* clearError of the hook, called while no scan is in flight
ClearError ==
  /\ \A i \in Slots : ~InFlight(i)
  /\ error' = NULL
  /\ UNCHANGED << scanResult, isScanning, progress, currentStep,
                  appState, scannedCard, scan, started, calc >>

\* one hook instance with the App calling scanCard and a caller of resetScan
\* and clearError
NextHook ==
  \/ Next
  \/ ResetScan
  \/ ClearError

SpecHook == Init /\ [][NextHook]_vars

\* C27: after any sequence of completed scanCard calls, of any outcome,
\* resetScan and clearError on one hook instance, scanResult and error are
\* never both non-null
C27_ResultOrErrorNotBoth ==
  (\A i \in Slots : ~InFlight(i)) => ~(scanResult # None /\ error # NULL)

\* C28: the HP check never changes the verdict.  With a name and a set
\* number and a database that knows the card, 5 or 6 of the 6 checks pass and
\* the card is authentic; isAuthentic is true exactly when neither
\* short-circuit fires; the confidence is one of 0.3, 0.4, 5/6 and 1.
C28_HpNeverChangesVerdict ==
  Scored
  => /\ ( /\ calc.input.cardInfo.name # ""
          /\ calc.input.cardInfo.setNumber # ""
          /\ calc.input.isValidCard )
        => /\ calc.output.confidence \in { <<5, 6>>, <<6, 6>> }
           /\ calc.output.isAuthentic
     /\ calc.output.isAuthentic
          <=> ( /\ calc.input.cardInfo.name # ""
                /\ calc.input.cardInfo.setNumber # ""
                /\ calc.input.isValidCard )
     /\ calc.output.confidence \in { <<3, 10>>, <<4, 10>>, <<5, 6>>, <<6, 6>> }

\* a card with a name and a set number but no HP, known to the database,
\* was scored 5/6 and authentic
C28_Witness ==
  /\ Scored
  /\ calc.input.cardInfo.name = "Mew"
  /\ calc.input.cardInfo.setNumber = "8/25"
  /\ calc.input.cardInfo.hp = ""
  /\ calc.input.isValidCard
  /\ calc.output.confidence = <<5, 6>>
  /\ calc.output.isAuthentic

====
